---- MODULE Spec2Model ----
(***************************************************************************)
(* A model of src/main.py (the "Incitatus" guild bot): the event state     *)
(* machine, the anchor-message reconciler, the loot splitter and the       *)
(* balance ledger, the roster loop, the registration commands and the      *)
(* cleanup scheduler, as the asyncio handlers execute them.  Every handler *)
(* is a process of the pool procs; one step of a process is the code that  *)
(* runs between two awaits, so handlers interleave exactly at the          *)
(* suspension points of the source.  The delayed-purge tasks of on_message *)
(* are asyncio tasks of their own and live in tasks.                       *)
(***************************************************************************)
EXTENDS Integers, Sequences, FiniteSets, TLC

\* ------------------------------------------------------------------ bounds
MaxUsers == 2        \* user ids 1..MaxUsers
MaxProcs == 2        \* handler invocations in flight at once
MaxTotal == 3        \* split-loot totals and pay values 1..MaxTotal
MaxRepair == 1       \* split-loot repair costs 0..MaxRepair
MaxBalance == 2      \* no new split-loot once a balance has reached this
MaxMsgId == 4        \* no manual deletion once this many ids were handed out
MaxEvents == 2       \* no new Create once start_event has run this many times

\* the attempts of one roster round: enumerate((0, 2, 4), 1)
Attempts == 3

Users == 1..MaxUsers
Procs == 1..MaxProcs
TaxRates == {0, 50, 100}

VARIABLES
    running,        \* state.running
    count,          \* state.count
    participants,   \* state.participants
    config,         \* the BotConfig object in memory
    disk,           \* config.json, ranking.json, balances.json as last written
    ranking,        \* the ranking dict (user -> count)
    balances,       \* the balances dict (user -> credit)
    guildMembers,   \* users guild.get_member resolves
    msgs,           \* live messages: id -> [surf, view]
    nextId,         \* the id the next sent message gets
    log,            \* event numbers of the roster artifacts in the log channel
    procs,          \* the handler invocations in flight
    epoch,          \* history: how many times start_event has reset the event
    awarded,        \* history: <<epoch, user>> pairs ranked so far
    members_set,    \* the roster snapshot in memory
    membersFile,    \* members.json as last written
    polled,         \* history: the name set of the last successful roster fetch
    notices,        \* history: the notifications the current roster round sent
    registrations,  \* the registrations dict (lowercased nickname -> user)
    regFile,        \* registrations.json as last written
    roles,          \* the users who carry the "Plebs" role
    plebsExists,    \* the guild has a role named "Plebs"
    nicks,          \* the users whose display name the bot has overridden
    cleanup_jobs,   \* the cleanup_jobs dict (channel -> task)
    tasks,          \* the delayed_cleanup tasks created so far
    chanMsgs        \* the messages of users in each channel

eventVars == <<running, count, participants, config, disk, ranking, balances,
               msgs, nextId, log, epoch, awarded>>

rosterVars == <<members_set, membersFile, polled, notices>>

regVars == <<registrations, regFile, roles, nicks>>

cleanupVars == <<cleanup_jobs, tasks, chanMsgs>>

vars == <<eventVars, guildMembers, procs, rosterVars, regVars, plebsExists,
          cleanupVars>>

\* ------------------------------------------------------------ dictionaries
EmptyDict == [x \in {} |-> 0]

\* dict.get(k, 0)
Get(d, k) == IF k \in DOMAIN d THEN d[k] ELSE 0

\* d[k] = v
Put(d, k, v) == [x \in (DOMAIN d) \cup {k} |-> IF x = k THEN v ELSE d[x]]

\* every iteration order of a Python set
Orders(S) == {f \in [1..Cardinality(S) -> S] : \A x \in S : \E i \in DOMAIN f : f[i] = x}

\* ------------------------------------------------------------------ config
Surfaces == {"event", "participate", "ranking", "baltop", "info"}

AnchorField(s) ==
    CASE s = "event" -> "event_msg_id"
      [] s = "participate" -> "participate_msg_id"
      [] s = "ranking" -> "ranking_msg_id"
      [] s = "baltop" -> "baltop_msg_id"
      [] s = "info" -> "info_msg_id"

ChannelField(s) ==
    CASE s = "event" -> "event_channel"
      [] s = "participate" -> "participate_channel"
      [] s = "ranking" -> "ranking_channel"
      [] s = "baltop" -> "baltop_channel"
      [] s = "info" -> "info_channel"

\* BotConfig: 0 stands for None; a configured channel is 1.
BotConfig(logCh) ==
    [event_channel |-> 1, participate_channel |-> 1, ranking_channel |-> 1,
     baltop_channel |-> 1, event_log_channel |-> logCh,
     guild_channel |-> 1, info_channel |-> 1, register_channel |-> 1,
     event_msg_id |-> 0, participate_msg_id |-> 0, ranking_msg_id |-> 0,
     baltop_msg_id |-> 0, info_msg_id |-> 0, register_msg_id |-> 0,
     event_count |-> 0]

\* ------------------------------------------------------------- processes
\* fetch_player found nobody
NoPlayer == [found |-> FALSE, Name |-> <<>>, GuildId |-> 0]

IdleProc ==
    [kind |-> "idle", pc |-> "done", surf |-> "none", stored |-> 0,
     view |-> "none", ret |-> 0, msg |-> 0, cancelled |-> FALSE, eid |-> 0,
     last_num |-> 0, user |-> 0, total |-> 0, tax |-> 0, repair |-> 0,
     n |-> 0, reply |-> "none", out |-> <<>>,
     issuedRunning |-> FALSE, emptyAtStart |-> FALSE, quiet |-> FALSE,
     epoch |-> 0,
     nickname |-> <<>>, nick_lower |-> <<>>, player |-> NoPlayer,
     attempt |-> 0, current_names |-> {}, joined_names |-> {},
     left_names |-> {}, snapshot |-> {}]

\* The program state a handler step reads and writes, as one record.
Globals ==
    [running |-> running, count |-> count, participants |-> participants,
     config |-> config, disk |-> disk, ranking |-> ranking,
     balances |-> balances, msgs |-> msgs, nextId |-> nextId, log |-> log,
     epoch |-> epoch, awarded |-> awarded,
     members_set |-> members_set, membersFile |-> membersFile,
     polled |-> polled, notices |-> notices,
     registrations |-> registrations, regFile |-> regFile, roles |-> roles,
     plebsExists |-> plebsExists, nicks |-> nicks]

\* Where a handler waits for an awaited call to come back.  A handler whose
\* remaining code is one interaction.response.defer() or send_message() has
\* nothing left to do to the state and counts as ended.
SuspendedPcs == {"history", "fetch", "edit", "send", "logsend", "respond",
                 "reject", "paid", "post",
                 "sleep", "poll", "backoff", "notify",
                 "lookup", "add_roles", "edit_nick", "remove_roles",
                 "clear_nick", "followup"}

\* ------------------------------------------------- the surface reconciler
\* AdminView(running=state.running) / PARTICIPATE_VIEW or None, as the
\* ensure_*_msg functions build the view they hand to ensure_message.
ViewFor(g, s) ==
    CASE s = "event" -> IF g.running THEN "admin_on" ELSE "admin_off"
      [] s = "participate" -> IF g.running THEN "participate" ELSE "none"
      [] OTHER -> "none"

\* channel.fetch_message(stored_id) finds the message
Exists(g, pr) ==
    pr.stored \in DOMAIN g.msgs /\ g.msgs[pr.stored].surf = pr.surf

\* ensure_<surface>_msg from its first line to the first await of
\* ensure_message: the early returns, then the arguments, read now.
ensure_enter(g, pr) ==
    IF \/ g.config[ChannelField(pr.surf)] = 0
       \/ pr.surf = "ranking" /\ DOMAIN g.ranking = {}
       \/ pr.surf = "baltop" /\ DOMAIN g.balances = {}
    THEN [g |-> g, pr |-> [pr EXCEPT !.pc = "ensured"]]
    ELSE LET sid == g.config[AnchorField(pr.surf)]
         IN [g |-> g,
             pr |-> [pr EXCEPT !.stored = sid,
                               !.view = ViewFor(g, pr.surf),
                               !.pc = IF sid # 0 THEN "fetch" ELSE "send"]]

\* ensure_message resumes from channel.fetch_message
ensure_message_fetched(g, pr) ==
    [g |-> g,
     pr |-> [pr EXCEPT !.pc = IF Exists(g, pr) THEN "edit" ELSE "send"]]

\* Variant: the fetched message is not edited: a new one is always sent
ensure_message_resent(g, pr) ==
    [g |-> g, pr |-> [pr EXCEPT !.pc = "send"]]

\* ensure_message resumes from msg.edit: the edit is applied and the view
\* stored for the message, or NotFound falls through to channel.send
ensure_message_edited(g, pr) ==
    IF Exists(g, pr)
    THEN [g |-> [g EXCEPT !.msgs[pr.stored].view = pr.view],
          pr |-> [pr EXCEPT !.ret = pr.stored, !.pc = "return"]]
    ELSE [g |-> g, pr |-> [pr EXCEPT !.pc = "send"]]

\* ensure_message resumes from channel.send with the new message
ensure_message_sent(g, pr) ==
    [g |-> [g EXCEPT !.msgs = [i \in (DOMAIN g.msgs) \cup {g.nextId} |->
                                  IF i = g.nextId
                                  THEN [surf |-> pr.surf, view |-> pr.view]
                                  ELSE g.msgs[i]],
                     !.nextId = g.nextId + 1],
     pr |-> [pr EXCEPT !.ret = g.nextId, !.pc = "return"]]

\* Variant: the new anchor id is kept in memory and config.save() forgotten
ensure_return_unsaved(g, pr) ==
    [g |-> [g EXCEPT !.config[AnchorField(pr.surf)] = pr.ret],
     pr |-> [pr EXCEPT !.pc = "ensured"]]

\* config.<surface>_msg_id = await ensure_message(...); config.save()
ensure_return(g, pr) ==
    LET cfg2 == [g.config EXCEPT ![AnchorField(pr.surf)] = pr.ret]
    IN [g |-> [g EXCEPT !.config = cfg2, !.disk.config = cfg2],
        pr |-> [pr EXCEPT !.pc = "ensured"]]

\* What a handler runs after ensure_<surface>_msg has returned.
ensure_continue(g, pr) ==
    [g |-> g,
     pr |-> CASE pr.kind = "create" /\ pr.surf = "event" ->
                    [pr EXCEPT !.surf = "participate", !.pc = "ensure"]
              [] pr.kind = "create" /\ pr.surf = "participate" ->
                    [pr EXCEPT !.pc = "respond"]
              [] pr.kind \in {"end", "cancel"} /\ pr.surf = "event" ->
                    [pr EXCEPT !.surf = "participate", !.pc = "ensure"]
              [] pr.kind \in {"end", "cancel"} /\ pr.surf = "participate" ->
                    [pr EXCEPT !.pc = "finish_tail"]
              [] pr.kind \in {"end", "cancel"} /\ pr.surf = "ranking" ->
                    [pr EXCEPT !.pc = "clear"]
              [] pr.kind = "split" -> [pr EXCEPT !.pc = "post"]
              [] pr.kind = "roster" -> [pr EXCEPT !.pc = "sleep"]
              [] OTHER -> [pr EXCEPT !.pc = "done"]]

\* ------------------------------------------------- the event state machine
\* the number in the newest roster artifact of the log channel
fetch_last_event_number(g) ==
    IF g.log = <<>> THEN 0 ELSE g.log[Len(g.log)]

\* persist("event_count", val)
persist_event_count(g, val) ==
    LET cfg2 == [g.config EXCEPT !.event_count = val]
    IN [g EXCEPT !.config = cfg2, !.disk.config = cfg2, !.count = val]

\* start_event after fetch_last_event_number, up to ensure_event_msg
start_event(g, pr) ==
    LET g1 == persist_event_count([g EXCEPT !.count = pr.last_num + 1],
                                  pr.last_num + 1)
    IN [g |-> [g1 EXCEPT !.running = TRUE, !.participants = {},
                         !.epoch = g.epoch + 1],
        pr |-> [pr EXCEPT !.surf = "event", !.pc = "ensure"]]

\* finish_event from its first line to ensure_event_msg
finish_event(g, pr) ==
    [g |-> [g EXCEPT !.running = FALSE],
     pr |-> [pr EXCEPT !.eid = g.count, !.surf = "event", !.pc = "ensure"]]

\* Variant: the award condition does not look at `cancelled`
finish_event_tail_any(g, pr) ==
    [g |-> [g EXCEPT !.disk.config = g.config],
     pr |-> [pr EXCEPT !.pc =
                IF g.participants # {} /\ g.config.event_log_channel # 0
                THEN "logsend" ELSE "clear"]]

\* finish_event after the two panels: config.save() and the award condition
finish_event_tail(g, pr) ==
    [g |-> [g EXCEPT !.disk.config = g.config],
     pr |-> [pr EXCEPT !.pc =
                IF ~pr.cancelled /\ g.participants # {}
                   /\ g.config.event_log_channel # 0
                THEN "logsend" ELSE "clear"]]

\* finish_event resumes from log_ch.send: the artifact is in the channel,
\* every current participant is ranked, ranking.json is written
finish_event_award(g, pr) ==
    LET rk == [u \in (DOMAIN g.ranking) \cup g.participants |->
                  IF u \in g.participants THEN Get(g.ranking, u) + 1
                  ELSE g.ranking[u]]
    IN [g |-> [g EXCEPT !.log = Append(g.log, pr.eid),
                        !.ranking = rk, !.disk.ranking = rk,
                        !.awarded = g.awarded \cup
                                    {<<pr.epoch, u>> : u \in g.participants}],
        pr |-> [pr EXCEPT !.surf = "ranking", !.pc = "ensure"]]

\* state.participants.clear(), then the handler's edit_message
finish_event_clear(g, pr) ==
    [g |-> [g EXCEPT !.participants = {}],
     pr |-> [pr EXCEPT !.pc = "respond"]]

\* interaction.response.edit_message(view=AdminView(running=...)) on the
\* message whose button was pressed
respond_edit(g, pr) ==
    [g |-> IF pr.msg \in DOMAIN g.msgs
           THEN [g EXCEPT !.msgs[pr.msg].view =
                            IF pr.kind = "create" THEN "admin_on" ELSE "admin_off"]
           ELSE g,
     pr |-> [pr EXCEPT !.pc = "done"]]

\* the captured flag of the view a press on message m is dispatched to
ViewRunning(g, m) == g.msgs[m].view = "admin_on"

\* AdminView.create from the press to the first await
AdminView_create(g, pr, admin) ==
    IF ~admin \/ ViewRunning(g, pr.msg)
    THEN [g |-> g, pr |-> [pr EXCEPT !.pc = "done"]]
    ELSE IF g.config.event_log_channel = 0
    THEN [g |-> g, pr |-> [pr EXCEPT !.last_num = 0, !.pc = "start_event"]]
    ELSE [g |-> g, pr |-> [pr EXCEPT !.pc = "history"]]

\* AdminView.end and AdminView.cancel from the press to the first await
AdminView_end(g, pr, admin) ==
    IF ~admin \/ ~ViewRunning(g, pr.msg)
    THEN [g |-> g, pr |-> [pr EXCEPT !.pc = "done"]]
    ELSE [g |-> g, pr |-> [pr EXCEPT !.pc = "finish_event"]]

\* ParticipateView.join from the press to the first await
ParticipateView_join(g, pr) ==
    IF ~g.running
    THEN [g |-> g, pr |-> [pr EXCEPT !.pc = "done"]]
    ELSE [g |-> [g EXCEPT !.participants = g.participants \cup {pr.user}],
          pr |-> [pr EXCEPT !.surf = "participate", !.pc = "ensure"]]

\* ParticipateView.leave from the press to the first await
ParticipateView_leave(g, pr) ==
    [g |-> [g EXCEPT !.participants = g.participants \ {pr.user}],
     pr |-> [pr EXCEPT !.surf = "participate", !.pc = "ensure"]]

\* ------------------------------------------------------ the loot splitter
\* Variant: the remainder of the division is dropped, not folded back
SplitArithmeticNoFold(total, tax, repair, n) ==
    LET guild_cut == (total * tax) \div 100
        restante == total - guild_cut - repair
        per_head == restante \div n
    IN [total |-> total, guild_cut |-> guild_cut, repair |-> repair,
        per_head |-> per_head, n |-> n]

\* split_loot's arithmetic: the guild cut, the rest, the share per head and
\* the remainder folded back into the guild cut
SplitArithmetic(total, tax, repair, n) ==
    LET guild_cut == (total * tax) \div 100
        restante == total - guild_cut - repair
        per_head == restante \div n
        sobra == restante - per_head * n
    IN [total |-> total, guild_cut |-> guild_cut + sobra, repair |-> repair,
        per_head |-> per_head, n |-> n]

\* Variant: the test of the rest against zero is missing
SplitReplyNoRestCheck(g, total, tax, repair) ==
    CASE ~g.running -> "no_event"
      [] Cardinality(g.participants) = 0 -> "no_participants"
      [] OTHER -> "ok"

\* split_loot's validation, in the order the code tests
SplitReply(g, total, tax, repair) ==
    CASE ~g.running -> "no_event"
      [] total <= 0 -> "bad_total"
      [] tax < 0 \/ tax > 100 -> "bad_tax"
      [] repair < 0 -> "bad_repair"
      [] Cardinality(g.participants) = 0 -> "no_participants"
      [] total - (total * tax) \div 100 - repair < 0 -> "over_deduction"
      [] OTHER -> "ok"

\* the credit loop of split_loot over the participants in iteration order
\* `order`: each balance is raised before the member is resolved, so the
\* loop stops after the first participant guild.get_member does not find
Credited(order, members) ==
    LET bad == {i \in DOMAIN order : order[i] \notin members}
    IN IF bad = {} THEN {order[i] : i \in DOMAIN order}
       ELSE {order[i] : i \in {j \in DOMAIN order :
                                 \A b \in bad : j <= b}}

LoopRaises(order, members) == \E i \in DOMAIN order : order[i] \notin members

\* split_loot from its first line to its first await
split_loot(g, pr, members, order) ==
    LET reply == SplitReply(g, pr.total, pr.tax, pr.repair)
        np == Cardinality(g.participants)
    IN IF reply # "ok"
       THEN [g |-> g, pr |-> [pr EXCEPT !.reply = reply, !.n = np, !.pc = "reject"]]
       ELSE LET a == SplitArithmetic(pr.total, pr.tax, pr.repair, np)
                who == Credited(order, members)
                bal == [u \in (DOMAIN g.balances) \cup who |->
                           IF u \in who THEN Get(g.balances, u) + a.per_head
                           ELSE g.balances[u]]
            IN IF LoopRaises(order, members)
               THEN [g |-> [g EXCEPT !.balances = bal],
                     pr |-> [pr EXCEPT !.reply = "raised", !.pc = "done"]]
               ELSE [g |-> [g EXCEPT !.balances = bal, !.disk.balances = bal],
                     pr |-> [pr EXCEPT !.reply = "ok", !.n = np, !.out = a,
                                       !.surf = "baltop", !.pc = "ensure"]]

\* Variant: the value is not tested against the current balance
pay_cmd_any_value(g, pr, value) ==
    LET current == Get(g.balances, pr.user)
    IN IF current = 0
       THEN [g |-> g, pr |-> [pr EXCEPT !.reply = "no_balance", !.pc = "reject"]]
       ELSE LET bal == Put(g.balances, pr.user, current - value)
            IN [g |-> [g EXCEPT !.balances = bal, !.disk.balances = bal],
                pr |-> [pr EXCEPT !.reply = "ok", !.pc = "paid"]]

\* pay_cmd from its first line to its first await
pay_cmd(g, pr, value) ==
    LET current == Get(g.balances, pr.user)
    IN IF current = 0
       THEN [g |-> g, pr |-> [pr EXCEPT !.reply = "no_balance", !.pc = "reject"]]
       ELSE IF value > current
       THEN [g |-> g, pr |-> [pr EXCEPT !.reply = "insufficient", !.pc = "reject"]]
       ELSE LET bal == Put(g.balances, pr.user, current - value)
            IN [g |-> [g EXCEPT !.balances = bal, !.disk.balances = bal],
                pr |-> [pr EXCEPT !.reply = "ok", !.pc = "paid"]]

\* -------------------------------------------------------- the roster loop
\* the member names the guild endpoint can report
Names == {"A", "B", "C", "D"}

\* check_new_members from the start of a round to its first request: with
\* no guild channel bound the round ends at once
check_new_members(g, pr) ==
    LET pr0 == [pr EXCEPT !.attempt = 0, !.current_names = {},
                          !.joined_names = {}, !.left_names = {},
                          !.snapshot = g.members_set, !.surf = "none"]
    IN IF g.config.guild_channel = 0
       THEN [g |-> g, pr |-> [pr0 EXCEPT !.reply = "no_channel", !.pc = "sleep"]]
       ELSE [g |-> [g EXCEPT !.notices = <<>>],
             pr |-> [pr0 EXCEPT !.reply = "none", !.attempt = 1, !.pc = "poll"]]

\* Variant: after the last failed attempt the round goes on with no data
check_new_members_failed_through(g, pr) ==
    IF pr.attempt < Attempts
    THEN [g |-> g, pr |-> [pr EXCEPT !.attempt = pr.attempt + 1, !.pc = "backoff"]]
    ELSE [g |-> g, pr |-> [pr EXCEPT !.left_names = g.members_set, !.pc = "diffed"]]

\* Variant: a failed attempt is always followed by another one
check_new_members_failed_again(g, pr) ==
    [g |-> g, pr |-> [pr EXCEPT !.pc = "backoff"]]

\* an attempt raises ClientError or TimeoutError: the next attempt after
\* its delay, or `data is None` after the last one and the round returns
check_new_members_failed(g, pr) ==
    IF pr.attempt < Attempts
    THEN [g |-> g, pr |-> [pr EXCEPT !.attempt = pr.attempt + 1, !.pc = "backoff"]]
    ELSE [g |-> g, pr |-> [pr EXCEPT !.reply = "abandoned", !.pc = "sleep"]]

\* an attempt answers with the members `data`: the two differences against
\* the snapshot, computed once
check_new_members_diff(g, pr, data) ==
    [g |-> [g EXCEPT !.polled = data],
     pr |-> [pr EXCEPT !.current_names = data,
                       !.joined_names = data \ g.members_set,
                       !.left_names = g.members_set \ data,
                       !.pc = "diffed"]]

\* the two notification loops: the next channel.send, or past both loops
check_new_members_loops(g, pr) ==
    [g |-> g,
     pr |-> [pr EXCEPT !.pc = IF pr.joined_names # {} \/ pr.left_names # {}
                              THEN "notify" ELSE "commit"]]

\* channel.send comes back for `name`, the element the running loop is at:
\* the welcome loop runs before the departure loop
check_new_members_sent(g, pr, name) ==
    IF pr.joined_names # {}
    THEN [g |-> [g EXCEPT !.notices = Append(g.notices, <<"welcome", name>>)],
          pr |-> [pr EXCEPT !.joined_names = pr.joined_names \ {name},
                            !.pc = "diffed"]]
    ELSE [g |-> [g EXCEPT !.notices = Append(g.notices, <<"departure", name>>)],
          pr |-> [pr EXCEPT !.left_names = pr.left_names \ {name},
                            !.pc = "diffed"]]

\* Variant: the snapshot is updated without being cleared first
check_new_members_commit_merge(g, pr) ==
    LET m == g.members_set \cup pr.current_names
    IN [g |-> [g EXCEPT !.members_set = m, !.membersFile = m],
        pr |-> [pr EXCEPT !.reply = "ok", !.surf = "info", !.pc = "ensure"]]

\* members_set.clear(); members_set.update(current_names); save_json; then
\* ensure_info_msg
check_new_members_commit(g, pr) ==
    [g |-> [g EXCEPT !.members_set = pr.current_names,
                     !.membersFile = pr.current_names],
     pr |-> [pr EXCEPT !.reply = "ok", !.surf = "info", !.pc = "ensure"]]

\* ------------------------------------------------- the registration commands
\* str.lower() on the characters nicknames are written with
LowerChar(c) ==
    CASE c = "F" -> "f"
      [] c = "O" -> "o"
      [] c = "B" -> "b"
      [] OTHER -> c

Lower(n) == [i \in DOMAIN n |-> LowerChar(n[i])]

\* str.strip(): leading and trailing blanks go
RECURSIVE Strip(_)
Strip(n) ==
    IF n = <<>> THEN n
    ELSE IF Head(n) = " " THEN Strip(Tail(n))
    ELSE IF n[Len(n)] = " " THEN Strip(SubSeq(n, 1, Len(n) - 1))
    ELSE n

\* the nicknames users type, and the players the search endpoint knows
Nicknames == {<<"F", "o">>, <<"f", "O", " ">>, <<"B">>}

PlayerNames == {<<"F", "o">>, <<"B">>}

\* the guild a found player is in: none, a guild of alliance.json, another
GuildIds == {0, 1, 2}

valid_guild_ids == {1}

\* what fetch_player(nickname) can return: None (also on a failed request)
\* or a player whose name equals the nickname up to case
fetch_player(nickname) ==
    {NoPlayer} \cup
    {[found |-> TRUE, Name |-> n, GuildId |-> gid] :
        n \in {x \in PlayerNames : Lower(x) = Lower(nickname)}, gid \in GuildIds}

\* the registrations dict keeps its keys in insertion order:
\* registrations.get(k), 0 for None
RegGet(r, k) ==
    IF \E i \in DOMAIN r : r[i].nick = k
    THEN r[CHOOSE i \in DOMAIN r : r[i].nick = k].uid
    ELSE 0

\* registrations[k] = v
RegPut(r, k, v) ==
    IF \E i \in DOMAIN r : r[i].nick = k
    THEN [i \in DOMAIN r |-> IF r[i].nick = k THEN [nick |-> k, uid |-> v] ELSE r[i]]
    ELSE Append(r, [nick |-> k, uid |-> v])

\* the loop of unregister_cmd: the first key bound to uid is deleted, then break
RegDelFirst(r, uid) ==
    LET own == {i \in DOMAIN r : r[i].uid = uid}
    IN IF own = {} THEN r
       ELSE LET f == CHOOSE i \in own : \A j \in own : i <= j
            IN SubSeq(r, 1, f - 1) \o SubSeq(r, f + 1, Len(r))

\* Variant: a nickname bound to somebody else is not turned away
register_cmd_no_conflict_test(g, pr, channel) ==
    LET nick_lower == Strip(Lower(pr.nickname))
        other_id == RegGet(g.registrations, nick_lower)
        pr1 == [pr EXCEPT !.nick_lower = nick_lower]
    IN IF g.config.register_channel # 0 /\ channel # g.config.register_channel
       THEN [g |-> g, pr |-> [pr1 EXCEPT !.reply = "wrong_channel", !.pc = "reject"]]
       ELSE IF g.plebsExists /\ pr.user \in g.roles
       THEN [g |-> g, pr |-> [pr1 EXCEPT !.reply = "already_registered", !.pc = "reject"]]
       ELSE IF other_id = pr.user
       THEN [g |-> g, pr |-> [pr1 EXCEPT !.reply = "same_user", !.pc = "reject"]]
       ELSE [g |-> g, pr |-> [pr1 EXCEPT !.pc = "lookup"]]

\* Variant: a nickname bound to the caller is looked up again
register_cmd_no_same_test(g, pr, channel) ==
    LET nick_lower == Strip(Lower(pr.nickname))
        other_id == RegGet(g.registrations, nick_lower)
        pr1 == [pr EXCEPT !.nick_lower = nick_lower]
    IN IF g.config.register_channel # 0 /\ channel # g.config.register_channel
       THEN [g |-> g, pr |-> [pr1 EXCEPT !.reply = "wrong_channel", !.pc = "reject"]]
       ELSE IF g.plebsExists /\ pr.user \in g.roles
       THEN [g |-> g, pr |-> [pr1 EXCEPT !.reply = "already_registered", !.pc = "reject"]]
       ELSE IF other_id # 0 /\ other_id # pr.user
       THEN [g |-> g, pr |-> [pr1 EXCEPT !.reply = "conflict", !.pc = "reject"]]
       ELSE [g |-> g, pr |-> [pr1 EXCEPT !.pc = "lookup"]]

\* register_cmd from its first line to fetch_player (the defer before it
\* reads and writes nothing)
register_cmd(g, pr, channel) ==
    LET nick_lower == Strip(Lower(pr.nickname))
        other_id == RegGet(g.registrations, nick_lower)
        pr1 == [pr EXCEPT !.nick_lower = nick_lower]
    IN IF g.config.register_channel # 0 /\ channel # g.config.register_channel
       THEN [g |-> g, pr |-> [pr1 EXCEPT !.reply = "wrong_channel", !.pc = "reject"]]
       ELSE IF g.plebsExists /\ pr.user \in g.roles
       THEN [g |-> g, pr |-> [pr1 EXCEPT !.reply = "already_registered", !.pc = "reject"]]
       ELSE IF other_id # 0 /\ other_id # pr.user
       THEN [g |-> g, pr |-> [pr1 EXCEPT !.reply = "conflict", !.pc = "reject"]]
       ELSE IF other_id = pr.user
       THEN [g |-> g, pr |-> [pr1 EXCEPT !.reply = "same_user", !.pc = "reject"]]
       ELSE [g |-> g, pr |-> [pr1 EXCEPT !.pc = "lookup"]]

\* Variant: the guild of the player is not tested against the whitelist
register_cmd_found_any_guild(g, pr, player) ==
    LET pr1 == [pr EXCEPT !.player = player]
    IN IF ~player.found
       THEN [g |-> g, pr |-> [pr1 EXCEPT !.reply = "not_found", !.pc = "reject"]]
       ELSE IF player.GuildId = 0
       THEN [g |-> g, pr |-> [pr1 EXCEPT !.reply = "no_guild", !.pc = "reject"]]
       ELSE [g |-> g,
             pr |-> [pr1 EXCEPT !.pc = IF g.plebsExists THEN "add_roles"
                                       ELSE "edit_nick"]]

\* register_cmd resumes from fetch_player with `player`
register_cmd_found(g, pr, player) ==
    LET pr1 == [pr EXCEPT !.player = player]
    IN IF ~player.found
       THEN [g |-> g, pr |-> [pr1 EXCEPT !.reply = "not_found", !.pc = "reject"]]
       ELSE IF player.GuildId = 0
       THEN [g |-> g, pr |-> [pr1 EXCEPT !.reply = "no_guild", !.pc = "reject"]]
       ELSE IF player.GuildId \notin valid_guild_ids
       THEN [g |-> g, pr |-> [pr1 EXCEPT !.reply = "unauthorized_guild", !.pc = "reject"]]
       ELSE [g |-> g,
             pr |-> [pr1 EXCEPT !.pc = IF g.plebsExists THEN "add_roles"
                                       ELSE "edit_nick"]]

\* register_cmd resumes from add_roles: the role is granted, or Forbidden
register_cmd_role(g, pr, ok) ==
    IF ok
    THEN [g |-> [g EXCEPT !.roles = g.roles \cup {pr.user}],
          pr |-> [pr EXCEPT !.pc = "edit_nick"]]
    ELSE [g |-> g, pr |-> [pr EXCEPT !.reply = "forbidden", !.pc = "reject"]]

\* register_cmd resumes from user.edit(nick=...), done or Forbidden: the
\* binding is written and saved either way
register_cmd_commit(g, pr, ok) ==
    LET reg == RegPut(g.registrations, pr.nick_lower, pr.user)
    IN [g |-> [g EXCEPT !.nicks = IF ok THEN g.nicks \cup {pr.user} ELSE g.nicks,
                        !.registrations = reg, !.regFile = reg],
        pr |-> [pr EXCEPT !.reply = "ok", !.pc = "followup"]]

\* unregister_cmd from its first line to remove_roles
unregister_cmd(g, pr) ==
    IF ~g.plebsExists \/ pr.user \notin g.roles
    THEN [g |-> g, pr |-> [pr EXCEPT !.reply = "not_registered", !.pc = "reject"]]
    ELSE LET reg == RegDelFirst(g.registrations, pr.user)
         IN [g |-> [g EXCEPT !.registrations = reg,
                             !.regFile = IF reg # g.registrations THEN reg
                                         ELSE g.regFile],
             pr |-> [pr EXCEPT !.pc = "remove_roles"]]

\* unregister_cmd resumes from remove_roles: the role is gone, or Forbidden
unregister_cmd_role(g, pr, ok) ==
    IF ok
    THEN [g |-> [g EXCEPT !.roles = g.roles \ {pr.user}],
          pr |-> [pr EXCEPT !.pc = "clear_nick"]]
    ELSE [g |-> g, pr |-> [pr EXCEPT !.reply = "forbidden", !.pc = "reject"]]

\* unregister_cmd resumes from user.edit(nick=None), done or Forbidden
unregister_cmd_nick(g, pr, ok) ==
    [g |-> [g EXCEPT !.nicks = IF ok THEN g.nicks \ {pr.user} ELSE g.nicks],
     pr |-> [pr EXCEPT !.reply = "ok", !.pc = "followup"]]

\* -------------------------------------------------- the cleanup scheduler
\* the text channels of the guild; channel 1 is the register channel
Channels == {1, 2}

\* bot.loop.create_task(delayed_cleanup()) for a message in channel c
\* (seen: the history the purge has read; denied: the deletions refused)
NewTask(c) ==
    [chan |-> c, st |-> "sleep", cancel |-> FALSE, todo |-> {},
     seen |-> {}, denied |-> {}]

\* job and not job.done(), for the task the dict holds for channel c
Pending(jobs, tk, c) == c \in DOMAIN jobs /\ tk[jobs[c]].st # "done"

\* Variant: the task the dict holds for the channel is not cancelled
on_message_no_cancel(jobs, tk, cfg, c, inGuild, fromBot) ==
    IF ~inGuild \/ fromBot \/ c # cfg.register_channel
    THEN [jobs |-> jobs, tasks |-> tk]
    ELSE LET tk2 == Append(tk, NewTask(c))
         IN [jobs |-> [x \in (DOMAIN jobs) \cup {c} |->
                         IF x = c THEN Len(tk2) ELSE jobs[x]],
             tasks |-> tk2]

\* on_message, which does not await: the filter, job.cancel() for the
\* channel's task if it has not finished, and the new task in its place
on_message(jobs, tk, cfg, c, inGuild, fromBot) ==
    IF ~inGuild \/ fromBot \/ c # cfg.register_channel
    THEN [jobs |-> jobs, tasks |-> tk]
    ELSE LET tk1 == IF Pending(jobs, tk, c)
                    THEN [tk EXCEPT ![jobs[c]].cancel = TRUE]
                    ELSE tk
             tk2 == Append(tk1, NewTask(c))
         IN [jobs |-> [x \in (DOMAIN jobs) \cup {c} |->
                         IF x = c THEN Len(tk2) ELSE jobs[x]],
             tasks |-> tk2]

\* channel.history(limit=100) of channel c
History(cm, c) == {m \in DOMAIN cm : cm[m].chan = c}

\* Variant: the purge does not look for the anchor
PurgeableNoAnchor(cm, cfg, c) == {m \in History(cm, c) : ~cm[m].bot}

\* what purge_register_channel calls msg.delete() on: the messages of the
\* history that are not the anchor and that the bot did not write
Purgeable(cm, cfg, c) ==
    {m \in History(cm, c) : m # cfg.register_msg_id /\ ~cm[m].bot}

\* ------------------------------------------------------- the interpreter
\* Code that runs without suspending, by the place the handler is at.
Exec(s) ==
    CASE s.pr.pc = "ensure" -> ensure_enter(s.g, s.pr)
      [] s.pr.pc = "return" -> ensure_return(s.g, s.pr)
      [] s.pr.pc = "ensured" -> ensure_continue(s.g, s.pr)
      [] s.pr.pc = "start_event" -> start_event(s.g, s.pr)
      [] s.pr.pc = "finish_event" -> finish_event(s.g, s.pr)
      [] s.pr.pc = "finish_tail" -> finish_event_tail(s.g, s.pr)
      [] s.pr.pc = "clear" -> finish_event_clear(s.g, s.pr)
      [] s.pr.pc = "diffed" -> check_new_members_loops(s.g, s.pr)
      [] s.pr.pc = "commit" -> check_new_members_commit(s.g, s.pr)

\* A handler runs on until it awaits or ends.
RECURSIVE Run(_)
Run(s) ==
    IF s.pr.pc \in SuspendedPcs \cup {"done"} THEN s
    ELSE CHOOSE r \in {Run(t) : t \in {Exec(s)}} : TRUE

\* The awaited call of a suspended handler comes back.
Resume(g, pr) ==
    CASE pr.pc = "history" ->
             [g |-> g, pr |-> [pr EXCEPT !.last_num = fetch_last_event_number(g),
                                         !.pc = "start_event"]]
      [] pr.pc = "fetch" -> ensure_message_fetched(g, pr)
      [] pr.pc = "edit" -> ensure_message_edited(g, pr)
      [] pr.pc = "send" -> ensure_message_sent(g, pr)
      [] pr.pc = "logsend" -> finish_event_award(g, pr)
      [] pr.pc = "respond" -> respond_edit(g, pr)
      [] pr.pc = "paid" -> [g |-> g, pr |-> [pr EXCEPT !.surf = "baltop", !.pc = "ensure"]]
      [] pr.pc = "sleep" -> check_new_members(g, pr)
      [] pr.pc = "backoff" -> [g |-> g, pr |-> [pr EXCEPT !.pc = "poll"]]
      [] OTHER -> [g |-> g, pr |-> [pr EXCEPT !.pc = "done"]]

\* The step's result becomes the next state; an ended handler frees its slot.
Commit(p, step) ==
    \E s \in {step} :
        /\ running' = s.g.running
        /\ count' = s.g.count
        /\ participants' = s.g.participants
        /\ config' = s.g.config
        /\ disk' = s.g.disk
        /\ ranking' = s.g.ranking
        /\ balances' = s.g.balances
        /\ msgs' = s.g.msgs
        /\ nextId' = s.g.nextId
        /\ log' = s.g.log
        /\ epoch' = s.g.epoch
        /\ awarded' = s.g.awarded
        /\ members_set' = s.g.members_set
        /\ membersFile' = s.g.membersFile
        /\ polled' = s.g.polled
        /\ notices' = s.g.notices
        /\ registrations' = s.g.registrations
        /\ regFile' = s.g.regFile
        /\ roles' = s.g.roles
        /\ nicks' = s.g.nicks
        /\ procs' = [procs EXCEPT ![p] = IF s.pr.pc = "done" THEN IdleProc ELSE s.pr]
        /\ UNCHANGED <<guildMembers, plebsExists, cleanupVars>>

Idle(p) == procs[p].kind = "idle"

\* A new invocation takes the first free slot of the pool.
FreeSlot(p) == Idle(p) /\ \A q \in Procs : q < p => ~Idle(q)

\* A suspended handler at place `pc` takes its next step.
StepAt(p, pc) ==
    /\ procs[p].kind # "idle"
    /\ procs[p].pc = pc
    /\ Commit(p, Run(Resume(Globals, procs[p])))

\* ---------------------------------------------------------------- actions
SplitLoot(p, total, tax, repair, order) ==
    /\ FreeSlot(p)
    /\ \A u \in DOMAIN balances : balances[u] < MaxBalance
    /\ Commit(p, Run(split_loot(Globals,
                                [IdleProc EXCEPT !.kind = "split", !.total = total,
                                                 !.tax = tax, !.repair = repair],
                                guildMembers, order)))

Pay(p, u, value) ==
    /\ FreeSlot(p)
    /\ Commit(p, Run(pay_cmd(Globals,
                             [IdleProc EXCEPT !.kind = "pay", !.user = u,
                                              !.total = value],
                             value)))

\* a user leaves the Discord guild: guild.get_member no longer finds them
MemberLeave(u) ==
    /\ u \in guildMembers
    /\ guildMembers' = guildMembers \ {u}
    /\ UNCHANGED <<eventVars, procs, rosterVars, regVars, plebsExists, cleanupVars>>

\* somebody deletes a panel message by hand
DeleteMessage(m) ==
    /\ m \in DOMAIN msgs
    /\ nextId <= MaxMsgId
    /\ msgs' = [i \in (DOMAIN msgs) \ {m} |-> msgs[i]]
    /\ UNCHANGED <<running, count, participants, config, disk, ranking, balances,
                   guildMembers, nextId, log, procs, epoch, awarded,
                   rosterVars, regVars, plebsExists, cleanupVars>>

FetchDone(p) == StepAt(p, "fetch")
EditDone(p) == StepAt(p, "edit")
SendDone(p) == StepAt(p, "send")
RejectDone(p) == StepAt(p, "reject")
PaidDone(p) == StepAt(p, "paid")
PostDone(p) == StepAt(p, "post")

HistoryDone(p) == StepAt(p, "history")
LogSent(p) == StepAt(p, "logsend")
RespondDone(p) == StepAt(p, "respond")

\* a press of a button of the event panel message m
AdminButtons(m) == m \in DOMAIN msgs /\ msgs[m].view \in {"admin_off", "admin_on"}

\* a press of a button of the participation panel message m
ParticipateButtons(m) == m \in DOMAIN msgs /\ msgs[m].view = "participate"

\* no Create is in flight
Quiet == \A q \in Procs : procs[q].kind # "create"

CreatePress(p, m, admin) ==
    /\ FreeSlot(p)
    /\ AdminButtons(m)
    /\ epoch < MaxEvents
    /\ Commit(p, Run(AdminView_create(Globals,
                                      [IdleProc EXCEPT !.kind = "create", !.msg = m,
                                                       !.issuedRunning = running,
                                                       !.quiet = Quiet,
                                                       !.epoch = epoch],
                                      admin)))

EndPress(p, m, admin) ==
    /\ FreeSlot(p)
    /\ AdminButtons(m)
    /\ Commit(p, Run(AdminView_end(Globals,
                                   [IdleProc EXCEPT !.kind = "end", !.msg = m,
                                                    !.issuedRunning = running,
                                                    !.cancelled = FALSE,
                                                    !.emptyAtStart = (participants = {}),
                                                    !.quiet = Quiet,
                                                    !.epoch = epoch],
                                   admin)))

CancelPress(p, m, admin) ==
    /\ FreeSlot(p)
    /\ AdminButtons(m)
    /\ Commit(p, Run(AdminView_end(Globals,
                                   [IdleProc EXCEPT !.kind = "cancel", !.msg = m,
                                                    !.cancelled = TRUE,
                                                    !.emptyAtStart = (participants = {}),
                                                    !.quiet = Quiet,
                                                    !.epoch = epoch],
                                   admin)))

JoinPress(p, u, m) ==
    /\ FreeSlot(p)
    /\ ParticipateButtons(m)
    /\ Commit(p, Run(ParticipateView_join(Globals,
                                          [IdleProc EXCEPT !.kind = "join", !.user = u])))

LeavePress(p, u, m) ==
    /\ FreeSlot(p)
    /\ ParticipateButtons(m)
    /\ Commit(p, Run(ParticipateView_leave(Globals,
                                           [IdleProc EXCEPT !.kind = "leave", !.user = u])))

\* ------------------------------------------------------- the stores at load
\* members.json is absent: the snapshot is empty
NoRoster ==
    members_set = {} /\ membersFile = {} /\ polled = {} /\ notices = <<>>

\* registrations.json is absent, nobody carries the role "Plebs"
NoRegistrations ==
    /\ registrations = <<>> /\ regFile = <<>>
    /\ roles = {} /\ plebsExists = TRUE /\ nicks = {}

\* no message has reached on_message yet
NoCleanup ==
    cleanup_jobs = EmptyDict /\ tasks = <<>> /\ chanMsgs = EmptyDict

\* ------------------------------------------------ the event state machine
\* The bot is up with its event and participation channels bound and both
\* panels posted by on_ready: no event runs, nobody is ranked, and the log
\* channel is bound or not.
InitEvent ==
    /\ running = FALSE
    /\ participants = {}
    /\ count = 0
    /\ \E logCh \in {0, 1} :
          config = [BotConfig(logCh) EXCEPT !.event_msg_id = 1,
                                            !.participate_msg_id = 2]
    /\ disk = [config |-> config, ranking |-> EmptyDict, balances |-> EmptyDict]
    /\ ranking = EmptyDict
    /\ balances = EmptyDict
    /\ guildMembers = Users
    /\ msgs = (1 :> [surf |-> "event", view |-> "admin_off"]) @@
              (2 :> [surf |-> "participate", view |-> "none"])
    /\ nextId = 3
    /\ log = <<>>
    /\ procs = [p \in Procs |-> IdleProc]
    /\ epoch = 0
    /\ awarded = {}
    /\ NoRoster /\ NoRegistrations /\ NoCleanup

NextEvent ==
    \/ \E p \in Procs, m \in DOMAIN msgs, admin \in BOOLEAN : CreatePress(p, m, admin)
    \/ \E p \in Procs, m \in DOMAIN msgs, admin \in BOOLEAN : EndPress(p, m, admin)
    \/ \E p \in Procs, m \in DOMAIN msgs, admin \in BOOLEAN : CancelPress(p, m, admin)
    \/ \E p \in Procs, u \in Users, m \in DOMAIN msgs : JoinPress(p, u, m)
    \/ \E p \in Procs, u \in Users, m \in DOMAIN msgs : LeavePress(p, u, m)
    \/ \E p \in Procs : HistoryDone(p)
    \/ \E p \in Procs : FetchDone(p)
    \/ \E p \in Procs : EditDone(p)
    \/ \E p \in Procs : SendDone(p)
    \/ \E p \in Procs : LogSent(p)
    \/ \E p \in Procs : RespondDone(p)

SpecEvent == InitEvent /\ [][NextEvent]_vars

\* ------------------------------------------------- the panels under repair
\* Event #1 is running with both panels posted, as a completed Create
\* leaves them; from here users join and leave, an administrator ends the
\* event, and panel messages are deleted by hand.
InitSurface ==
    /\ running = TRUE
    /\ participants = {}
    /\ count = 1
    /\ config = [BotConfig(1) EXCEPT !.event_msg_id = 1, !.participate_msg_id = 2,
                                     !.event_count = 1]
    /\ disk = [config |-> config, ranking |-> EmptyDict, balances |-> EmptyDict]
    /\ ranking = EmptyDict
    /\ balances = EmptyDict
    /\ guildMembers = Users
    /\ msgs = (1 :> [surf |-> "event", view |-> "admin_on"]) @@
              (2 :> [surf |-> "participate", view |-> "participate"])
    /\ nextId = 3
    /\ log = <<>>
    /\ procs = [p \in Procs |-> IdleProc]
    /\ epoch = 1
    /\ awarded = {}
    /\ NoRoster /\ NoRegistrations /\ NoCleanup

NextSurface ==
    \/ \E p \in Procs, u \in Users, m \in DOMAIN msgs : JoinPress(p, u, m)
    \/ \E p \in Procs, u \in Users, m \in DOMAIN msgs : LeavePress(p, u, m)
    \/ \E p \in Procs, m \in DOMAIN msgs, admin \in BOOLEAN : EndPress(p, m, admin)
    \/ \E m \in DOMAIN msgs : DeleteMessage(m)
    \/ \E p \in Procs : FetchDone(p)
    \/ \E p \in Procs : EditDone(p)
    \/ \E p \in Procs : SendDone(p)
    \/ \E p \in Procs : LogSent(p)
    \/ \E p \in Procs : RespondDone(p)

SpecSurface == InitSurface /\ [][NextSurface]_vars

\* ------------------------------------------- the loot splitter on its own
\* An event is running with any participant set, or none is; the ledgers
\* are empty and the balance leaderboard has not been posted yet.
InitLoot ==
    /\ running \in BOOLEAN
    /\ participants \in (IF running THEN SUBSET Users ELSE {{}})
    /\ count = IF running THEN 1 ELSE 0
    /\ config = [BotConfig(1) EXCEPT !.event_count = count]
    /\ disk = [config |-> config, ranking |-> EmptyDict, balances |-> EmptyDict]
    /\ ranking = EmptyDict
    /\ balances = EmptyDict
    /\ guildMembers = Users
    /\ msgs = EmptyDict
    /\ nextId = 1
    /\ log = <<>>
    /\ procs = [p \in Procs |-> IdleProc]
    /\ epoch = 0
    /\ awarded = {}
    /\ NoRoster /\ NoRegistrations /\ NoCleanup

NextLoot ==
    \/ \E p \in Procs, total \in 1..MaxTotal, tax \in TaxRates,
          repair \in 0..MaxRepair, order \in Orders(participants) :
            SplitLoot(p, total, tax, repair, order)
    \/ \E u \in Users : MemberLeave(u)
    \/ \E p \in Procs : FetchDone(p)
    \/ \E p \in Procs : EditDone(p)
    \/ \E p \in Procs : SendDone(p)
    \/ \E p \in Procs : RejectDone(p)
    \/ \E p \in Procs : PostDone(p)

SpecLoot == InitLoot /\ [][NextLoot]_vars

\* ------------------------------------------------ the roster loop on its own
\* the 30 minutes between two rounds are over
RoundStart(p) == StepAt(p, "sleep")

\* asyncio.sleep(delay) before the next attempt is over
BackoffDone(p) == StepAt(p, "backoff")

\* the request of an attempt fails
PollFailed(p) ==
    /\ procs[p].kind = "roster" /\ procs[p].pc = "poll"
    /\ Commit(p, Run(check_new_members_failed(Globals, procs[p])))

\* the request of an attempt answers with the members `data`
PollDone(p, data) ==
    /\ procs[p].kind = "roster" /\ procs[p].pc = "poll"
    /\ Commit(p, Run(check_new_members_diff(Globals, procs[p], data)))

\* channel.send of a notification comes back; the loop the round is in
\* iterates its set in any order
NotifyDone(p, name) ==
    /\ procs[p].kind = "roster" /\ procs[p].pc = "notify"
    /\ name \in (IF procs[p].joined_names # {} THEN procs[p].joined_names
                 ELSE procs[p].left_names)
    /\ Commit(p, Run(check_new_members_sent(Globals, procs[p], name)))

\* on_ready has started the loop; its task waits for its next round.  The
\* snapshot is what the last successful fetch reported, the info panel is
\* not posted yet, and the guild channel is bound or not.
InitRoster ==
    /\ running = FALSE
    /\ participants = {}
    /\ count = 0
    /\ \E gch \in {0, 1} : config = [BotConfig(1) EXCEPT !.guild_channel = gch]
    /\ disk = [config |-> config, ranking |-> EmptyDict, balances |-> EmptyDict]
    /\ ranking = EmptyDict
    /\ balances = EmptyDict
    /\ guildMembers = Users
    /\ msgs = EmptyDict
    /\ nextId = 1
    /\ log = <<>>
    /\ procs = [p \in Procs |-> IF p = 1
                                THEN [IdleProc EXCEPT !.kind = "roster", !.pc = "sleep"]
                                ELSE IdleProc]
    /\ epoch = 0
    /\ awarded = {}
    /\ members_set \in SUBSET Names
    /\ membersFile = members_set
    /\ polled = members_set
    /\ notices = <<>>
    /\ NoRegistrations /\ NoCleanup

NextRoster ==
    \/ \E p \in Procs : RoundStart(p)
    \/ \E p \in Procs : PollFailed(p)
    \/ \E p \in Procs : BackoffDone(p)
    \/ \E p \in Procs, data \in SUBSET Names : PollDone(p, data)
    \/ \E p \in Procs, name \in Names : NotifyDone(p, name)
    \/ \E p \in Procs : FetchDone(p)
    \/ \E p \in Procs : EditDone(p)
    \/ \E p \in Procs : SendDone(p)

SpecRoster == InitRoster /\ [][NextRoster]_vars

\* a step inside a round: an awaited call of the round comes back
RoundStep ==
    \E p \in Procs :
        \/ PollFailed(p)
        \/ \E data \in SUBSET Names : PollDone(p, data)
        \/ BackoffDone(p)
        \/ \E name \in Names : NotifyDone(p, name)
        \/ FetchDone(p)
        \/ EditDone(p)
        \/ SendDone(p)

\* Every awaited call of a round comes back: the request answers or fails
\* within its 10 s ClientTimeout, asyncio.sleep ends, and a Discord call
\* returns or raises.  Nothing is assumed about the next round starting.
FairRoster == WF_vars(RoundStep)

SpecRosterLive == InitRoster /\ [][NextRoster]_vars /\ FairRoster

\* ------------------------------------------- the registration commands alone
Register(p, u, nickname, channel) ==
    /\ FreeSlot(p)
    /\ Commit(p, Run(register_cmd(Globals,
                                   [IdleProc EXCEPT !.kind = "register", !.user = u,
                                                    !.nickname = nickname],
                                   channel)))

Unregister(p, u) ==
    /\ FreeSlot(p)
    /\ Commit(p, Run(unregister_cmd(Globals,
                                     [IdleProc EXCEPT !.kind = "unregister",
                                                      !.user = u])))

LookupDone(p, player) ==
    /\ procs[p].kind = "register" /\ procs[p].pc = "lookup"
    /\ player \in fetch_player(procs[p].nickname)
    /\ Commit(p, Run(register_cmd_found(Globals, procs[p], player)))

AddRolesDone(p, ok) ==
    /\ procs[p].kind = "register" /\ procs[p].pc = "add_roles"
    /\ Commit(p, Run(register_cmd_role(Globals, procs[p], ok)))

EditNickDone(p, ok) ==
    /\ procs[p].kind = "register" /\ procs[p].pc = "edit_nick"
    /\ Commit(p, Run(register_cmd_commit(Globals, procs[p], ok)))

RemoveRolesDone(p, ok) ==
    /\ procs[p].kind = "unregister" /\ procs[p].pc = "remove_roles"
    /\ Commit(p, Run(unregister_cmd_role(Globals, procs[p], ok)))

ClearNickDone(p, ok) ==
    /\ procs[p].kind = "unregister" /\ procs[p].pc = "clear_nick"
    /\ Commit(p, Run(unregister_cmd_nick(Globals, procs[p], ok)))

FollowupDone(p) == StepAt(p, "followup")

\* the players fetch_player may be handed back, whatever the nickname
Players ==
    {NoPlayer} \cup {[found |-> TRUE, Name |-> n, GuildId |-> gid] :
                        n \in PlayerNames, gid \in GuildIds}

\* The register channel is bound, nobody is registered yet, and the guild
\* has a role named "Plebs" or has none.
InitRegister ==
    /\ running = FALSE
    /\ participants = {}
    /\ count = 0
    /\ config = BotConfig(1)
    /\ disk = [config |-> config, ranking |-> EmptyDict, balances |-> EmptyDict]
    /\ ranking = EmptyDict
    /\ balances = EmptyDict
    /\ guildMembers = Users
    /\ msgs = EmptyDict
    /\ nextId = 1
    /\ log = <<>>
    /\ procs = [p \in Procs |-> IdleProc]
    /\ epoch = 0
    /\ awarded = {}
    /\ registrations = <<>> /\ regFile = <<>>
    /\ roles = {} /\ nicks = {}
    /\ plebsExists \in BOOLEAN
    /\ NoRoster /\ NoCleanup

NextRegister ==
    \/ \E p \in Procs, u \in Users, nickname \in Nicknames, channel \in {1, 2} :
          Register(p, u, nickname, channel)
    \/ \E p \in Procs, u \in Users : Unregister(p, u)
    \/ \E p \in Procs, player \in Players : LookupDone(p, player)
    \/ \E p \in Procs, ok \in BOOLEAN : AddRolesDone(p, ok)
    \/ \E p \in Procs, ok \in BOOLEAN : EditNickDone(p, ok)
    \/ \E p \in Procs, ok \in BOOLEAN : RemoveRolesDone(p, ok)
    \/ \E p \in Procs, ok \in BOOLEAN : ClearNickDone(p, ok)
    \/ \E p \in Procs : RejectDone(p)
    \/ \E p \in Procs : FollowupDone(p)

SpecRegister == InitRegister /\ [][NextRegister]_vars

\* ------------------------------------------------- the balance ledger alone
\* Event #1 is running and every user takes part; the ledgers are empty and
\* the balance leaderboard has not been posted yet.  Loot is split and
\* payments are recorded in any interleaving.
InitLedger ==
    /\ running = TRUE
    /\ participants = Users
    /\ count = 1
    /\ config = [BotConfig(1) EXCEPT !.event_count = 1]
    /\ disk = [config |-> config, ranking |-> EmptyDict, balances |-> EmptyDict]
    /\ ranking = EmptyDict
    /\ balances = EmptyDict
    /\ guildMembers = Users
    /\ msgs = EmptyDict
    /\ nextId = 1
    /\ log = <<>>
    /\ procs = [p \in Procs |-> IdleProc]
    /\ epoch = 1
    /\ awarded = {}
    /\ NoRoster /\ NoRegistrations /\ NoCleanup

NextLedger ==
    \/ \E p \in Procs, total \in 1..MaxTotal, tax \in TaxRates,
          repair \in 0..MaxRepair, order \in Orders(participants) :
            SplitLoot(p, total, tax, repair, order)
    \/ \E p \in Procs, u \in Users, value \in 1..MaxTotal : Pay(p, u, value)
    \/ \E p \in Procs : FetchDone(p)
    \/ \E p \in Procs : EditDone(p)
    \/ \E p \in Procs : SendDone(p)
    \/ \E p \in Procs : RejectDone(p)
    \/ \E p \in Procs : PaidDone(p)
    \/ \E p \in Procs : PostDone(p)

SpecLedger == InitLedger /\ [][NextLedger]_vars

\* ------------------------------------------------ the cleanup scheduler alone
\* a message is written in channel c (or to the bot directly) and reaches
\* on_message
MessageArrives(c, inGuild, fromBot) ==
    /\ nextId <= MaxMsgId
    /\ LET r == on_message(cleanup_jobs, tasks, config, c, inGuild, fromBot)
       IN /\ cleanup_jobs' = r.jobs
          /\ tasks' = r.tasks
    /\ chanMsgs' = IF inGuild
                   THEN [m \in (DOMAIN chanMsgs) \cup {nextId} |->
                           IF m = nextId THEN [chan |-> c, bot |-> fromBot]
                           ELSE chanMsgs[m]]
                   ELSE chanMsgs
    /\ nextId' = nextId + 1
    /\ UNCHANGED <<running, count, participants, config, disk, ranking, balances,
                   msgs, log, epoch, awarded, guildMembers, procs, rosterVars,
                   regVars, plebsExists>>

\* the task's asyncio.sleep(300) is over: purge_register_channel reads the
\* history of the channel
SleepOver(i) ==
    /\ i \in DOMAIN tasks
    /\ tasks[i].st = "sleep" /\ ~tasks[i].cancel
    /\ tasks' = [tasks EXCEPT ![i].st = "purge",
                              ![i].seen = History(chanMsgs, tasks[i].chan),
                              ![i].todo = Purgeable(chanMsgs, config, tasks[i].chan)]
    /\ UNCHANGED <<eventVars, guildMembers, procs, rosterVars, regVars,
                   plebsExists, cleanup_jobs, chanMsgs>>

\* CancelledError reaches a cancelled task at its await: it ends there
CancelDelivered(i) ==
    /\ i \in DOMAIN tasks
    /\ tasks[i].st # "done" /\ tasks[i].cancel
    /\ tasks' = [tasks EXCEPT ![i].st = "done", ![i].todo = {}]
    /\ UNCHANGED <<eventVars, guildMembers, procs, rosterVars, regVars,
                   plebsExists, cleanup_jobs, chanMsgs>>

\* msg.delete() of the purge comes back: the message is gone, or Forbidden
\* is logged and the loop goes on
DeleteDone(i, m, ok) ==
    /\ i \in DOMAIN tasks
    /\ tasks[i].st = "purge" /\ ~tasks[i].cancel
    /\ m \in tasks[i].todo
    /\ tasks' = [tasks EXCEPT ![i].todo = tasks[i].todo \ {m},
                              ![i].denied = IF ok THEN tasks[i].denied
                                            ELSE tasks[i].denied \cup {m}]
    /\ chanMsgs' = IF ok THEN [x \in (DOMAIN chanMsgs) \ {m} |-> chanMsgs[x]]
                   ELSE chanMsgs
    /\ UNCHANGED <<eventVars, guildMembers, procs, rosterVars, regVars,
                   plebsExists, cleanup_jobs>>

\* the history is exhausted: the task finishes
PurgeDone(i) ==
    /\ i \in DOMAIN tasks
    /\ tasks[i].st = "purge" /\ ~tasks[i].cancel
    /\ tasks[i].todo = {}
    /\ tasks' = [tasks EXCEPT ![i].st = "done"]
    /\ UNCHANGED <<eventVars, guildMembers, procs, rosterVars, regVars,
                   plebsExists, cleanup_jobs, chanMsgs>>

\* The register channel is bound and no message has reached on_message.
\* config.json names no banner and the channel is empty, or it names as
\* the banner message 1 of the channel, which the bot wrote or (an id put
\* in the file by hand) somebody else did.
InitCleanup ==
    /\ running = FALSE
    /\ participants = {}
    /\ count = 0
    /\ \E anchor \in {"none", "bot", "user"} :
          /\ config = [BotConfig(1) EXCEPT !.register_msg_id =
                                             IF anchor = "none" THEN 0 ELSE 1]
          /\ chanMsgs = IF anchor = "none" THEN EmptyDict
                        ELSE (1 :> [chan |-> 1, bot |-> (anchor = "bot")])
          /\ nextId = IF anchor = "none" THEN 1 ELSE 2
    /\ disk = [config |-> config, ranking |-> EmptyDict, balances |-> EmptyDict]
    /\ ranking = EmptyDict
    /\ balances = EmptyDict
    /\ guildMembers = Users
    /\ msgs = EmptyDict
    /\ log = <<>>
    /\ procs = [p \in Procs |-> IdleProc]
    /\ epoch = 0
    /\ awarded = {}
    /\ cleanup_jobs = EmptyDict
    /\ tasks = <<>>
    /\ NoRoster /\ NoRegistrations

NextCleanup ==
    \/ \E c \in Channels, inGuild \in BOOLEAN, fromBot \in BOOLEAN :
          MessageArrives(c, inGuild, fromBot)
    \/ \E i \in DOMAIN tasks : SleepOver(i)
    \/ \E i \in DOMAIN tasks : CancelDelivered(i)
    \/ \E i \in DOMAIN tasks, m \in DOMAIN chanMsgs, ok \in BOOLEAN :
          DeleteDone(i, m, ok)
    \/ \E i \in DOMAIN tasks : PurgeDone(i)

SpecCleanup == InitCleanup /\ [][NextCleanup]_vars

\* process p takes a step
Stepped(p) == procs'[p] # procs[p]

\* process p is invoked as a handler of this kind and does not end at once
Invoked(p, kind) == procs[p].kind = "idle" /\ procs'[p].kind = kind

\* ------------------------------------------------------------------ C1
\* C1: every split-loot that is accepted computes a final guild cut, a
\* share per head and a repair cost with
\* guild_cut + per_head * n + repair = total, and per_head >= 0.
C1_SplitConservesTotal ==
    \A p \in Procs :
        (procs[p].kind = "split" /\ procs[p].reply = "ok") =>
            LET o == procs[p].out
            IN /\ o.total = procs[p].total
               /\ o.repair = procs[p].repair
               /\ o.guild_cut + o.per_head * o.n + o.repair = o.total
               /\ o.per_head >= 0

\* an accepted split among two participants whose rest leaves a remainder
C1_Witness ==
    \E p \in Procs :
        /\ procs[p].kind = "split" /\ procs[p].reply = "ok"
        /\ procs[p].out.n = 2 /\ procs[p].out.per_head = 1
        /\ procs[p].out.guild_cut = 1 /\ procs[p].tax = 0

\* ------------------------------------------------------------------ C2
Over(pr) == pr.total - (pr.total * pr.tax) \div 100 - pr.repair < 0

\* C2 as stated: a split-loot invocation answers over-deduction whenever
\* floor(total*tax/100) + repair > total and no-participants whenever the
\* participant set is empty, and a rejected one changes no balance.
C2_AsStated ==
    [][\A p \in Procs : Invoked(p, "split") =>
          /\ Over(procs'[p]) => procs'[p].reply = "over_deduction"
          /\ participants = {} => procs'[p].reply = "no_participants"
          /\ procs'[p].pc = "reject" =>
                balances' = balances /\ disk'.balances = disk.balances]_vars

\* C2 (amended): the rejections are tested in order.  With no event running
\* the answer is no-active-event; on a running event with an empty
\* participant set it is no-participants; on a running event with
\* participants and floor(total*tax/100) + repair > total it is
\* over-deduction.  A rejected invocation changes no balance, in memory or
\* in balances.json.
C2_RejectionsInOrder ==
    [][\A p \in Procs : Invoked(p, "split") =>
          /\ ~running => procs'[p].reply = "no_event"
          /\ (running /\ participants = {}) => procs'[p].reply = "no_participants"
          /\ (running /\ participants # {} /\ Over(procs'[p])) =>
                procs'[p].reply = "over_deduction"
          /\ procs'[p].pc = "reject" =>
                balances' = balances /\ disk'.balances = disk.balances]_vars

\* an over-deduction rejection while balances are already credited
C2_Witness ==
    \E p \in Procs :
        /\ procs[p].kind = "split" /\ procs[p].pc = "reject"
        /\ procs[p].reply = "over_deduction"
        /\ \E u \in DOMAIN balances : balances[u] > 0

\* ------------------------------------------------------------------ C3
\* C3 as stated: a Create issued while the event is Running, with no End
\* or Cancel since, leaves the state Running, the counter unchanged and
\* the participant set as it was, however the press arrives.
C3_AsStated ==
    [][\A p \in Procs :
          (\/ Invoked(p, "create") /\ running
           \/ /\ procs[p].kind = "create" /\ procs[p].issuedRunning
              /\ procs[p].epoch = epoch /\ running /\ Stepped(p))
          => (running' /\ count' = count /\ participants' = participants)]_vars

\* ------------------------------------------------------------------ C4
\* C4 as stated, for a Create pressed while the event is Idle and no other
\* Create is in flight: when its start_event runs, with no other start_event
\* since the press, the id it assigns is greater than the id the previous
\* start_event assigned.
C4_AsStated ==
    [][\A p \in Procs :
          (/\ epoch' # epoch /\ epoch > 0 /\ ~running
           /\ \/ Invoked(p, "create") /\ Quiet
              \/ /\ procs[p].kind = "create" /\ Stepped(p)
                 /\ ~procs[p].issuedRunning /\ procs[p].quiet
                 /\ procs[p].epoch = epoch)
          => count' > count]_vars

\* ------------------------------------------------------------------ C5
\* finish_event resumes from log_ch.send in process p
AwardStep(p) == procs[p].kind = "end" /\ procs[p].pc = "logsend" /\ Stepped(p)

\* C5 as stated: the ranking changes only when an End awards; the award
\* raises the count of every participant by exactly 1 and of no one else;
\* and no participant is raised twice for the same event, whatever the
\* interleaving of End and Cancel (for an End pressed with no Create in
\* flight).
C5_AsStated ==
    [][/\ ranking' # ranking => \E p \in Procs : AwardStep(p)
       /\ \A p \in Procs : AwardStep(p) =>
            \A u \in Users :
               /\ Get(ranking', u) - Get(ranking, u) =
                     (IF u \in participants THEN 1 ELSE 0)
               /\ (u \in participants /\ procs[p].quiet) =>
                     <<procs[p].epoch, u>> \notin awarded]_vars

\* ------------------------------------------------------------------ C6
\* C6: no step of a Cancel changes a ranking entry (in memory or in
\* ranking.json) or adds a roster artifact to the log channel; its first
\* step leaves the event not running, and the step that reaches the end of
\* finish_event leaves the participant set empty.
C6_CancelFrame ==
    [][\A p \in Procs :
          /\ (Stepped(p) /\ (procs[p].kind = "cancel" \/ Invoked(p, "cancel"))) =>
                /\ ranking' = ranking
                /\ disk'.ranking = disk.ranking
                /\ log' = log
                /\ awarded' = awarded
          /\ Invoked(p, "cancel") => ~running'
          /\ (procs'[p].kind = "cancel" /\ procs'[p].pc = "respond"
              /\ procs[p].pc # "respond") => participants' = {}]_vars

\* a Cancel of an event that had participants and a bound log channel has
\* run to its last await
C6_Witness ==
    \E p \in Procs :
        /\ procs[p].kind = "cancel" /\ procs[p].pc = "respond"
        /\ ~procs[p].emptyAtStart
        /\ config.event_log_channel # 0
        /\ participants = {} /\ ~running
        /\ DOMAIN ranking = {} /\ log = <<>>

\* ------------------------------------------------------------------ C7
\* C7 as stated: an End pressed on a Running event whose participant set
\* is empty (and with no Create in flight) changes no ranking entry and
\* adds no roster artifact in any of its steps, and its first step leaves
\* the event not running.
C7_AsStated ==
    [][\A p \in Procs :
          /\ (Stepped(p) /\ procs[p].kind = "end" /\ procs[p].emptyAtStart
              /\ procs[p].issuedRunning /\ procs[p].quiet) =>
                (ranking' = ranking /\ log' = log)
          /\ (Invoked(p, "end") /\ participants = {}) => ~running']_vars

\* ------------------------------------------------------------------ C8
\* C8: a reconcile whose stored anchor message exists when it is fetched
\* goes on to edit it, and one whose message exists when it is edited
\* edits that message, returns the same id into Config (persisted) and
\* creates no message; so two reconciles in a row edit the same message.
C8_EditInPlace ==
    [][\A p \in Procs :
          LET pr == procs[p]
              there == pr.stored \in DOMAIN msgs /\ msgs[pr.stored].surf = pr.surf
          IN /\ (Stepped(p) /\ pr.pc = "fetch" /\ there) =>
                   /\ procs'[p].pc = "edit"
                   /\ msgs' = msgs /\ nextId' = nextId /\ config' = config
             /\ (Stepped(p) /\ pr.pc = "edit" /\ there) =>
                   /\ config'[AnchorField(pr.surf)] = pr.stored
                   /\ disk'.config = config'
                   /\ DOMAIN msgs' = DOMAIN msgs
                   /\ nextId' = nextId
                   /\ msgs'[pr.stored].view = pr.view]_vars

\* a Leave is about to edit the participation panel that a Join has
\* already edited in place: the anchor is the original and nothing was sent
C8_Witness ==
    \E p \in Procs :
        /\ procs[p].kind = "leave" /\ procs[p].pc = "edit"
        /\ \A q \in Procs \ {p} : Idle(q)
        /\ procs[p].stored = 2 /\ config.participate_msg_id = 2
        /\ 2 \in DOMAIN msgs
        /\ participants # {}
        /\ nextId = 3

\* ------------------------------------------------------------------ C9
\* C9: a reconcile whose stored anchor message is gone when it is fetched
\* or edited raises nothing and goes on to send; the send creates exactly
\* one message, and its id is in the surface's Config field, in memory and
\* in config.json, when the step ends.
C9_RecreateStale ==
    [][\A p \in Procs :
          LET pr == procs[p]
          IN /\ (Stepped(p) /\ pr.pc \in {"fetch", "edit"}
                 /\ pr.stored \notin DOMAIN msgs) =>
                   /\ procs'[p].pc = "send"
                   /\ msgs' = msgs /\ config' = config
             /\ (Stepped(p) /\ pr.pc = "send") =>
                   /\ nextId \notin DOMAIN msgs
                   /\ DOMAIN msgs' = (DOMAIN msgs) \cup {nextId}
                   /\ msgs'[nextId].surf = pr.surf
                   /\ config'[AnchorField(pr.surf)] = nextId
                   /\ disk'.config = config']_vars

\* the participation panel was deleted and one replacement is anchored
C9_Witness ==
    /\ 2 \notin DOMAIN msgs
    /\ config.participate_msg_id = 3
    /\ disk.config.participate_msg_id = 3
    /\ 3 \in DOMAIN msgs /\ msgs[3].surf = "participate"
    /\ nextId = 4

\* ------------------------------------------------------------------ C10
\* the live messages a surface has in its channel
Live(s) == {m \in DOMAIN msgs : msgs[m].surf = s}

\* C10 as stated: every surface has at most one live message in its channel.
C10_AsStated == \A s \in Surfaces : Cardinality(Live(s)) <= 1

\* ------------------------------------------------------------------ C11
\* the roster round of process p is between its fetch and its commit
Notifying(p) == procs[p].kind = "roster" /\ procs[p].pc = "notify"

\* C11: the persisted snapshot always equals the snapshot in memory, which
\* outside the notification phase of a round equals the name set of the
\* last successful fetch; an attempt that fails changes neither and sends
\* nothing, and a round abandoned after its third failed attempt ends with
\* the snapshot it started with and no notification sent.
C11_FailedRoundKeepsSnapshot ==
    /\ [](/\ membersFile = members_set
          /\ (\A p \in Procs : ~Notifying(p)) => members_set = polled)
    /\ [][\A p \in Procs :
            (procs[p].kind = "roster" /\ procs[p].pc = "poll"
             /\ procs'[p].pc \in {"backoff", "sleep"}) =>
               /\ members_set' = members_set /\ membersFile' = membersFile
               /\ notices' = notices
               /\ procs'[p].pc = "sleep" =>
                     /\ procs[p].attempt = Attempts
                     /\ procs'[p].reply = "abandoned"
                     /\ members_set' = procs[p].snapshot
                     /\ membersFile' = procs[p].snapshot
                     /\ notices' = <<>>]_vars

\* a round on the snapshot {A, B, C} was abandoned after three attempts
C11_Witness ==
    \E p \in Procs :
        /\ procs[p].kind = "roster" /\ procs[p].pc = "sleep"
        /\ procs[p].reply = "abandoned" /\ procs[p].attempt = Attempts
        /\ members_set = {"A", "B", "C"} /\ membersFile = {"A", "B", "C"}

\* ------------------------------------------------------------------ C12
\* the names the round has notified with this kind of notification
Notified(ns, kind) == {ns[i][2] : i \in {j \in DOMAIN ns : ns[j][1] = kind}}

\* C12: when a round whose fetch answered `current` against the snapshot
\* `snapshot` reaches its commit, it has sent welcome notifications for
\* exactly current \ snapshot and departure notifications for exactly
\* snapshot \ current, each name once, and the snapshot in memory and in
\* members.json is `current`.
C12_RoundDiffsAndCommits ==
    [][\A p \in Procs :
          (procs[p].kind = "roster" /\ procs[p].reply # "ok"
           /\ procs'[p].reply = "ok") =>
             LET cur == procs'[p].current_names
                 snap == procs'[p].snapshot
             IN /\ snap = members_set
                /\ Notified(notices', "welcome") = cur \ snap
                /\ Notified(notices', "departure") = snap \ cur
                /\ Len(notices') = Cardinality(cur \ snap) + Cardinality(snap \ cur)
                /\ members_set' = cur
                /\ membersFile' = cur]_vars

\* the round of the example: {A, B, C} against a fetch of {B, C, D}
C12_Witness ==
    \E p \in Procs :
        /\ procs[p].kind = "roster" /\ procs[p].reply = "ok"
        /\ procs[p].snapshot = {"A", "B", "C"}
        /\ procs[p].current_names = {"B", "C", "D"}
        /\ notices = << <<"welcome", "D">>, <<"departure", "A">> >>
        /\ membersFile = {"B", "C", "D"}

\* ------------------------------------------------------------------ C13
\* the key a nickname is registered under
Key(nickname) == Strip(Lower(nickname))

\* process p is invoked as a Register in the register channel
Registering(p) == Invoked(p, "register") /\ procs'[p].reply # "wrong_channel"

\* C13 as stated: a Register (in the register channel, with no other
\* command in flight) for a nickname whose key is bound to another user is
\* answered with the conflict, looks nobody up, grants no role and leaves
\* the bindings as they are.
C13_AsStated ==
    [][\A p \in Procs :
          (/\ Registering(p)
           /\ \A q \in Procs \ {p} : Idle(q)
           /\ RegGet(registrations, Key(procs'[p].nickname))
                 \notin {0, procs'[p].user}) =>
             /\ procs'[p].reply = "conflict"
             /\ procs'[p].pc = "reject"
             /\ roles' = roles
             /\ registrations' = registrations]_vars

\* C13 (amended): a Register in the register channel for a nickname whose
\* key is bound to another user is answered with the conflict when the
\* caller does not carry the role, and with the already-registered failure
\* when the caller carries it; either way nobody is looked up, no role is
\* granted and the bindings, in memory and in registrations.json, stay.
C13_ConflictUnlessMarked ==
    [][\A p \in Procs :
          (/\ Registering(p)
           /\ RegGet(registrations, Key(procs'[p].nickname))
                 \notin {0, procs'[p].user}) =>
             /\ procs'[p].reply =
                   (IF plebsExists /\ procs'[p].user \in roles
                    THEN "already_registered" ELSE "conflict")
             /\ procs'[p].pc = "reject"
             /\ roles' = roles
             /\ registrations' = registrations
             /\ regFile' = regFile]_vars

\* user 2 is turned away with the conflict for "fO " while "fo" is user 1's
C13_Witness ==
    \E p \in Procs :
        /\ procs[p].kind = "register" /\ procs[p].pc = "reject"
        /\ procs[p].reply = "conflict" /\ procs[p].user = 2
        /\ procs[p].nickname = <<"f", "O", " ">>
        /\ RegGet(registrations, <<"f", "o">>) = 1
        /\ 2 \notin roles

\* ------------------------------------------------------------------ C14
\* C14 as stated: no step changes the user a key is bound to into another
\* user; a key changes hands only after it was removed.
C14_AsStated ==
    [][\A i \in DOMAIN registrations :
          RegGet(registrations', registrations[i].nick)
             \in {0, registrations[i].uid}]_vars

C16_LookupFailureMutatesNothing ==
    [][\A p \in Procs :
          (procs[p].kind = "register" /\ procs[p].pc = "lookup" /\ Stepped(p)) =>
             LET pl == procs'[p].player
                 failed == ~pl.found \/ pl.GuildId \notin valid_guild_ids
             IN /\ ~pl.found => procs'[p].reply = "not_found"
                /\ (pl.found /\ pl.GuildId = 0) => procs'[p].reply = "no_guild"
                /\ (pl.found /\ pl.GuildId # 0 /\ pl.GuildId \notin valid_guild_ids)
                      => procs'[p].reply = "unauthorized_guild"
                /\ failed =>
                      /\ procs'[p].pc = "reject"
                      /\ roles' = roles /\ nicks' = nicks
                      /\ registrations' = registrations
                      /\ regFile' = regFile]_vars

\* user 2 is turned away for a player of a guild outside the whitelist and
\* has neither role nor display name nor binding
C16_Witness ==
    \E p \in Procs :
        /\ procs[p].kind = "register" /\ procs[p].pc = "reject"
        /\ procs[p].reply = "unauthorized_guild" /\ procs[p].user = 2
        /\ procs[p].player.GuildId = 2
        /\ 2 \notin roles /\ 2 \notin nicks
        /\ \A i \in DOMAIN registrations : registrations[i].uid # 2

\* ------------------------------------------------------------------ C17
\* the keys of Registrations bound to user u
Owned(r, u) == {i \in DOMAIN r : r[i].uid = u}

\* C17 as stated: every user is the value of at most one key of
\* Registrations.
C17_AsStated == \A u \in Users : Cardinality(Owned(registrations, u)) <= 1

\* ------------------------------------------------------------------ C18
\* C18 as stated: an Unregister by a user without the role is turned away
\* and changes nothing; when an Unregister by a user with the role answers
\* that the registration is removed, no key is bound to the user and the
\* user does not carry the role.
C18_AsStated ==
    [][\A p \in Procs :
          /\ (Invoked(p, "unregister") /\ procs'[p].user \notin roles) =>
                /\ procs'[p].reply = "not_registered"
                /\ registrations' = registrations /\ regFile' = regFile
                /\ roles' = roles /\ nicks' = nicks
          /\ (procs[p].kind = "unregister" /\ procs[p].reply # "ok"
              /\ procs'[p].reply = "ok") =>
                /\ Owned(registrations', procs[p].user) = {}
                /\ procs[p].user \notin roles']_vars

\* ------------------------------------------------------------------ C19
\* C19: every balance, in memory and in balances.json, is >= 0 in every
\* state; a pay for a user whose balance is 0 or is smaller than the value
\* is turned away and changes no balance, and an accepted pay lowers the
\* user's balance by the value.
C19_BalancesNeverNegative ==
    /\ [](/\ \A u \in DOMAIN balances : balances[u] >= 0
          /\ \A u \in DOMAIN disk.balances : disk.balances[u] >= 0)
    /\ [][\A p \in Procs : Invoked(p, "pay") =>
            LET u == procs'[p].user
                value == procs'[p].total
                current == Get(balances, u)
            IN /\ current = 0 => procs'[p].reply = "no_balance"
               /\ (current # 0 /\ value > current) =>
                     procs'[p].reply = "insufficient"
               /\ (current = 0 \/ value > current) =>
                     balances' = balances /\ disk'.balances = disk.balances
               /\ (current # 0 /\ value <= current) =>
                     /\ procs'[p].reply = "ok"
                     /\ Get(balances', u) = current - value
                     /\ disk'.balances = balances']_vars

\* a pay larger than the balance was turned away after another pay had
\* brought a balance down to exactly 0
C19_Witness ==
    \E p \in Procs :
        /\ procs[p].kind = "pay" /\ procs[p].reply = "insufficient"
        /\ Get(balances, procs[p].user) > 0
        /\ \E u \in DOMAIN balances : balances[u] = 0

\* ------------------------------------------------------------------ C20
\* the delayed-purge tasks of channel c that have neither finished nor been
\* cancelled
PendingTasks(c) ==
    {i \in DOMAIN tasks : tasks[i].chan = c /\ tasks[i].st # "done"
                                            /\ ~tasks[i].cancel}

\* C20: every channel has at most one delayed-purge task that is neither
\* finished nor cancelled, and it is the one cleanup_jobs holds for the
\* channel; a task cancelled during its sleep never starts its purge, and
\* only a task that is not cancelled deletes messages.
C20_OnePendingPurge ==
    /\ [](\A c \in Channels :
            /\ Cardinality(PendingTasks(c)) <= 1
            /\ \A i \in PendingTasks(c) : c \in DOMAIN cleanup_jobs
                                           /\ cleanup_jobs[c] = i)
    /\ [][/\ \A i \in DOMAIN tasks :
               (tasks[i].cancel /\ tasks[i].st = "sleep") =>
                  tasks'[i].st \in {"sleep", "done"}
          /\ (DOMAIN chanMsgs' # DOMAIN chanMsgs /\ nextId' = nextId) =>
               \E i \in DOMAIN tasks :
                  /\ tasks[i].st = "purge" /\ ~tasks[i].cancel
                  /\ PendingTasks(tasks[i].chan) = {i}]_vars

\* a burst of three messages in the register channel: the first two tasks
\* were cancelled in their sleep, the third one is purging
C20_Witness ==
    /\ Len(tasks) = 3
    /\ tasks[1].cancel /\ tasks[2].cancel
    /\ tasks[1].st = "done" /\ tasks[2].st = "done"
    /\ tasks[3].st = "purge" /\ ~tasks[3].cancel
    /\ Cardinality(tasks[3].todo) = 3

\* ------------------------------------------------------------------ C21
\* the step of process p in which start_event assigns the new event id
StartStep(p) == procs[p].kind = "create" /\ Stepped(p) /\ epoch' = epoch + 1

\* the event number of the newest artifact of the log channel as the Create
\* reads it (0 with no artifact or no log channel)
LastObserved ==
    IF config.event_log_channel = 0 THEN 0 ELSE fetch_last_event_number(Globals)

\* C21 as stated: the step of a Create that starts the event sets the event
\* id to max(last observed log number, persisted counter) + 1 and leaves
\* that value in the Config event counter, in memory and on disk, before
\* any panel is refreshed (for a Create pressed on an idle event with no
\* other Create in flight, and none started since).
C21_AsStated ==
    [][\A p \in Procs :
          (/\ StartStep(p)
           /\ ~procs[p].issuedRunning /\ procs[p].quiet
           /\ procs[p].epoch = epoch) =>
          /\ count' = (IF LastObserved > disk.config.event_count
                       THEN LastObserved ELSE disk.config.event_count) + 1
          /\ config'.event_count = count'
          /\ disk'.config.event_count = count'
          /\ msgs' = msgs]_vars

\* ------------------------------------------------------------------ C22
\* a step of a Create, an End or a Cancel that is under way
LifecycleStep ==
    \E p \in Procs : procs[p].kind \in {"create", "end", "cancel"} /\ Stepped(p)

\* C22 as stated: while running is false, which includes the time an End is
\* suspended between setting running to false and awarding the ranking, a
\* press of Join or of Leave leaves the participant set unchanged: the set
\* changes then only by a step of a Create, an End or a Cancel.
C22_AsStated ==
    [][/\ \A p \in Procs :
            (~running /\ (Invoked(p, "join") \/ Invoked(p, "leave"))) =>
               participants' = participants
       /\ (~running /\ participants' # participants) => LifecycleStep]_vars

\* ------------------------------------------------------------------ C23
\* process p is the roster loop inside a round, at place pc
RoundAt(p, pcs) == procs[p].kind = "roster" /\ procs[p].pc \in pcs

\* C23: every round that starts comes back to the wait between rounds.  A
\* request is made only as attempt 1, 2 or 3 of its round; a failed attempt
\* before the third is followed by its delay and the next attempt, the
\* third failed attempt abandons the round, and once an attempt has
\* answered the round makes no further attempt.
C23_RoundTerminates ==
    /\ [](\A p \in Procs :
            RoundAt(p, {"poll", "backoff"}) => procs[p].attempt \in 1..Attempts)
    /\ [][\A p \in Procs :
            /\ (RoundAt(p, {"poll"}) /\ Stepped(p)) =>
                  \/ /\ procs'[p].pc = "backoff"
                     /\ procs[p].attempt < Attempts
                     /\ procs'[p].attempt = procs[p].attempt + 1
                  \/ /\ procs'[p].pc = "sleep"
                     /\ procs[p].attempt = Attempts
                     /\ procs'[p].reply = "abandoned"
                  \/ /\ procs'[p].pc \in {"notify", "fetch", "send"}
                     /\ procs'[p].attempt = procs[p].attempt
            /\ (RoundAt(p, {"backoff"}) /\ Stepped(p)) =>
                  procs'[p].pc = "poll" /\ procs'[p].attempt = procs[p].attempt
            /\ (RoundAt(p, {"notify", "fetch", "edit", "send"}) /\ Stepped(p)) =>
                  procs'[p].pc \in {"notify", "fetch", "edit", "send", "sleep"}]_vars
    /\ \A p \in Procs :
          (procs[p].kind = "roster" /\ procs[p].pc # "sleep")
             ~> (procs[p].kind = "roster" /\ procs[p].pc = "sleep")

\* a round whose first two attempts failed and whose third answered has
\* sent its notifications, replaced the snapshot and gone back to waiting
C23_Witness ==
    \E p \in Procs :
        /\ RoundAt(p, {"sleep"})
        /\ procs[p].reply = "ok" /\ procs[p].attempt = Attempts
        /\ procs[p].snapshot # procs[p].current_names
        /\ members_set = procs[p].current_names

\* ------------------------------------------------------------------ C24
\* the purge of task i reaches the end of the history in this step, not
\* having been cancelled
PurgeCompletes(i) ==
    tasks[i].st = "purge" /\ ~tasks[i].cancel /\ tasks'[i].st = "done"

\* C24 as stated: when a purge that was not cancelled has run to its end,
\* every message its history held is gone from the channel, except the
\* configured anchor and the messages whose deletion was refused.
C24_AsStated ==
    [][\A i \in DOMAIN tasks : PurgeCompletes(i) =>
          \A m \in tasks[i].seen :
             m \in DOMAIN chanMsgs' =>
                (m = config.register_msg_id \/ m \in tasks[i].denied)]_vars

\* C24, amended: when a purge that was not cancelled has run to its end,
\* every message its history held that the bot did not write is gone from
\* the channel, except the configured anchor (whoever wrote it) and the
\* messages whose deletion was refused; the anchor and the messages the
\* bot wrote are still there.  A refused deletion leaves the purge running
\* on the rest: the purge ends only with nothing left to delete.
C24_PurgeDeletesOthers ==
    [][/\ \A m \in DOMAIN chanMsgs :
            (m = config.register_msg_id \/ chanMsgs[m].bot) =>
               m \in DOMAIN chanMsgs'
       /\ \A i \in DOMAIN tasks :
          /\ PurgeCompletes(i) =>
                /\ tasks[i].todo = {}
                /\ \A m \in tasks[i].seen :
                      m \in DOMAIN chanMsgs' =>
                         \/ m = config.register_msg_id
                         \/ chanMsgs'[m].bot
                         \/ m \in tasks[i].denied
          /\ (tasks[i].st = "purge" /\ tasks'[i].denied # tasks[i].denied) =>
                /\ tasks'[i].st = "purge"
                /\ tasks'[i].todo # tasks[i].todo
                /\ tasks'[i].todo \subseteq tasks[i].todo
                /\ chanMsgs' = chanMsgs]_vars

\* a purge has ended, not cancelled, on a history of four messages: the
\* anchor, written by somebody else, is kept; a message of the bot is kept;
\* one deletion was refused and the message after it was deleted
C24_Witness ==
    \E i \in DOMAIN tasks :
        /\ tasks[i].st = "done" /\ ~tasks[i].cancel
        /\ Cardinality(tasks[i].seen) = 4
        /\ config.register_msg_id \in tasks[i].seen
        /\ ~chanMsgs[config.register_msg_id].bot
        /\ \E m \in tasks[i].seen : m \in DOMAIN chanMsgs /\ chanMsgs[m].bot
        /\ Cardinality(tasks[i].denied) = 1
        /\ \E m \in tasks[i].seen : m \notin DOMAIN chanMsgs

\* ------------------------------------------------------------------ C25
\* C25 as stated: a step that changes a balance, in memory or in
\* balances.json, is the step of an accepted split-loot that raises the
\* balance of every current participant by exactly the share per head,
\* changes nobody else's, and leaves the ledger persisted; any other
\* split-loot invocation changes no balance at all, also when a
\* participant is no longer found among the guild members.
C25_AsStated ==
    [][(balances' # balances \/ disk'.balances # disk.balances) =>
          /\ disk'.balances = balances'
          /\ \E p \in Procs :
                /\ Invoked(p, "split") /\ procs'[p].reply = "ok"
                /\ \A u \in participants :
                      Get(balances', u) = Get(balances, u) + procs'[p].out.per_head
          /\ \A u \in Users \ participants :
                Get(balances', u) = Get(balances, u)]_vars

\* ------------------------------------------------------------------ C26
\* the Unregister of process p is refused the removal of the role in this
\* step, with no other command in flight
UnregisterRefused(p) ==
    /\ procs[p].kind = "unregister" /\ procs[p].pc = "remove_roles"
    /\ procs'[p].reply = "forbidden"
    /\ \A q \in Procs \ {p} : Idle(q)

\* C26 as stated: when remove_roles of an Unregister is refused, the user
\* still carries the role and still owns a binding in the registrations,
\* in memory and in registrations.json: a failed Unregister leaves no user
\* with the role and without a binding.
C26_AsStated ==
    [][\A p \in Procs : UnregisterRefused(p) =>
          LET u == procs[p].user
          IN /\ u \in roles'
             /\ Owned(registrations', u) # {}
             /\ Owned(regFile', u) # {}]_vars

====
